---- MODULE Spec2Model ----
(***************************************************************************)
(* Expected-row builder for in-path rules (Lanai page verification).       *)
(*                                                                         *)
(* Python values are records [t, s, n]: t is the type tag, s the text of   *)
(* a str as a sequence of characters, n the number of an int or bool.      *)
(* A row is a sequence of cell-groups, a cell-group a sequence of values.  *)
(***************************************************************************)
EXTENDS Integers, Sequences, FiniteSets, TLC

VARIABLES pc, number_of_rules, kwords, result, log, vlan

vars == <<pc, number_of_rules, kwords, result, log, vlan>>

-----------------------------------------------------------------------------
(* Python values *)

None == [t |-> "none", s |-> <<>>, n |-> 0]

Absent == [t |-> "absent", s |-> <<>>, n |-> 0]

PyStr(chars) == [t |-> "str", s |-> chars, n |-> 0]

PyInt(i) == [t |-> "int", s |-> <<>>, n |-> i]

PyBool(b) == [t |-> "bool", s |-> <<>>, n |-> IF b THEN 1 ELSE 0]

UpperLetters == <<"A","B","C","D","E","F","G","H","I","J","K","L","M","N","O","P","Q","R","S","T","U","V","W","X","Y","Z">>

LowerLetters == <<"a","b","c","d","e","f","g","h","i","j","k","l","m","n","o","p","q","r","s","t","u","v","w","x","y","z">>

DigitChars == <<"0","1","2","3","4","5","6","7","8","9">>

ToLower(c) ==
    IF \E i \in 1..26 : UpperLetters[i] = c
    THEN LowerLetters[CHOOSE i \in 1..26 : UpperLetters[i] = c]
    ELSE c

ToUpper(c) ==
    IF \E i \in 1..26 : LowerLetters[i] = c
    THEN UpperLetters[CHOOSE i \in 1..26 : LowerLetters[i] = c]
    ELSE c

RECURSIVE IntToChars(_)
IntToChars(i) ==
    IF i < 0 THEN <<"-">> \o IntToChars(0 - i)
    ELSE IF i < 10 THEN <<DigitChars[i + 1]>>
    ELSE IntToChars(i \div 10) \o <<DigitChars[(i % 10) + 1]>>

\* str(v)
str(v) ==
    CASE v.t = "str" -> v.s
      [] v.t = "int" -> IntToChars(v.n)
      [] v.t = "bool" -> IF v.n = 1 THEN <<"T","r","u","e">> ELSE <<"F","a","l","s","e">>
      [] OTHER -> <<"N","o","n","e">>

\* the truth value of v in a condition
truthy(v) ==
    CASE v.t = "str" -> Len(v.s) > 0
      [] v.t = "int" -> v.n # 0
      [] v.t = "bool" -> v.n = 1
      [] OTHER -> FALSE

\* string.capitalize(s)
capitalize(s) ==
    [i \in 1..Len(s) |-> IF i = 1 THEN ToUpper(s[i]) ELSE ToLower(s[i])]

\* a keyword argument, or the default of the parameter when it is not passed
Arg(kw, name, default) == IF kw[name] = Absent THEN default ELSE kw[name]

Returned(row) == [exc |-> "", row |-> row]

Raised(exc) == [exc |-> exc, row |-> <<>>]

-----------------------------------------------------------------------------
(* The module *)

KICKOFF_INDEX == 10

\* translate_VLAN that upper-cases the first character and keeps the others
translate_VLAN_upper_first(vlan_id) ==
    IF vlan_id = None
    THEN PyStr(<<"A","l","l">>)
    ELSE PyStr([i \in 1..Len(str(vlan_id)) |->
                IF i = 1 THEN ToUpper(str(vlan_id)[i]) ELSE str(vlan_id)[i]])

translate_VLAN(vlan_id) ==
    IF vlan_id = None
    THEN PyStr(<<"A","l","l">>)
    ELSE PyStr(capitalize(str(vlan_id)))

\* patc.match of the pattern r'\Aall', without the \Z
patc_match_unanchored(port) ==
    LET pattern == <<"a","l","l">>
    IN /\ Len(port) >= Len(pattern)
       /\ \A i \in 1..Len(pattern) : ToLower(port[i]) = pattern[i]

\* patc = re.compile(r'\Aall\Z', re.IGNORECASE); patc.match(port)
patc_match(port) ==
    LET pattern == <<"a","l","l">>
    IN /\ Len(port) >= Len(pattern)
       /\ \A i \in 1..Len(pattern) : ToLower(port[i]) = pattern[i]
       /\ Len(port) = Len(pattern)

expected_rule_prefix(type_of_rule, position, source_subnet, source_port, destination_subnet, destination_port) ==
    IF source_port.t # "str" \/ destination_port.t # "str"
    THEN Raised("TypeError")
    ELSE LET sport == IF patc_match(source_port.s)
                      THEN PyStr(<<"*">>) ELSE source_port
             dport == IF patc_match(destination_port.s)
                      THEN PyStr(<<"*">>) ELSE destination_port
             source == PyStr(str(source_subnet) \o <<":">> \o str(sport))
             destination ==
                 PyStr(str(destination_subnet) \o <<":">> \o str(dport))
         IN Returned(<< <<PyStr(str(position))>>, <<type_of_rule>>,
                        <<source>>, <<destination>> >>)

\* expected_auto_discover_rule with kickoff "Yes" for every auto_kickoff but None
expected_auto_discover_rule_not_none(n_rules, kw) ==
    LET position == IF Arg(kw, "position", None) = None
                    THEN n_rules ELSE kw["position"]
        prefix == expected_rule_prefix(PyStr(<<"A","u","t","o"," ","D","i","s","c","o","v","e","r">>), position,
                      Arg(kw, "source_subnet", PyStr(<<"a","l","l","-","I","P","v","4">>)),
                      Arg(kw, "source_port", PyStr(<<"*">>)),
                      Arg(kw, "destination_subnet", PyStr(<<"a","l","l","-","I","P","v","4">>)),
                      Arg(kw, "destination_port", PyStr(<<"*">>)))
        given_policy == Arg(kw, "optimization_policy", PyStr(<<"N","o","r","m","a","l">>))
        optimization_policy ==
            IF given_policy = PyStr(<<"C","o","m","p","r","e","s","s","i","o","n","-","O","n","l","y">>)
            THEN PyStr(<<"C","o","m","p","r","-","O","n","l","y">>) ELSE given_policy
        auto_kickoff == Arg(kw, "auto_kickoff", None)
        kickoff == IF auto_kickoff # None
                   THEN PyStr(<<"Y","e","s">>) ELSE PyStr(<<"N","o">>)
    IN IF prefix.exc # "" THEN prefix
       ELSE Returned(prefix.row \o
              << <<translate_VLAN(Arg(kw, "vlan_id", None))>>,
                 <<Arg(kw, "protocol", PyStr(<<"-","-">>))>>,
                 <<Arg(kw, "preoptimization_policy", PyStr(<<"N","o","n","e">>))>>,
                 <<Arg(kw, "latency_optimization_policy", PyStr(<<"N","o","r","m","a","l">>))>>,
                 <<optimization_policy>>,
                 <<Arg(kw, "cloud_acceleration", PyStr(<<"A","u","t","o">>))>>,
                 <<kickoff>>,
                 <<Arg(kw, "status", PyStr(<<"E","n","a","b","l","e","d">>))>> >>)

expected_auto_discover_rule(n_rules, kw) ==
    LET position == IF Arg(kw, "position", None) = None
                    THEN n_rules ELSE kw["position"]
        prefix == expected_rule_prefix(PyStr(<<"A","u","t","o"," ","D","i","s","c","o","v","e","r">>), position,
                      Arg(kw, "source_subnet", PyStr(<<"a","l","l","-","I","P","v","4">>)),
                      Arg(kw, "source_port", PyStr(<<"*">>)),
                      Arg(kw, "destination_subnet", PyStr(<<"a","l","l","-","I","P","v","4">>)),
                      Arg(kw, "destination_port", PyStr(<<"*">>)))
        given_policy == Arg(kw, "optimization_policy", PyStr(<<"N","o","r","m","a","l">>))
        optimization_policy ==
            IF given_policy = PyStr(<<"C","o","m","p","r","e","s","s","i","o","n","-","O","n","l","y">>)
            THEN PyStr(<<"C","o","m","p","r","-","O","n","l","y">>) ELSE given_policy
        auto_kickoff == Arg(kw, "auto_kickoff", None)
        kickoff == IF auto_kickoff # None /\ truthy(auto_kickoff)
                   THEN PyStr(<<"Y","e","s">>) ELSE PyStr(<<"N","o">>)
    IN IF prefix.exc # "" THEN prefix
       ELSE Returned(prefix.row \o
              << <<translate_VLAN(Arg(kw, "vlan_id", None))>>,
                 <<Arg(kw, "protocol", PyStr(<<"-","-">>))>>,
                 <<Arg(kw, "preoptimization_policy", PyStr(<<"N","o","n","e">>))>>,
                 <<Arg(kw, "latency_optimization_policy", PyStr(<<"N","o","r","m","a","l">>))>>,
                 <<optimization_policy>>,
                 <<Arg(kw, "cloud_acceleration", PyStr(<<"A","u","t","o">>))>>,
                 <<kickoff>>,
                 <<Arg(kw, "status", PyStr(<<"E","n","a","b","l","e","d">>))>> >>)

\* expected_fixed_target_rule that renders the cloud_acceleration it is given
expected_fixed_target_rule_cloud(n_rules, kw) ==
    LET position == IF Arg(kw, "position", None) = None
                    THEN n_rules ELSE kw["position"]
        prefix == expected_rule_prefix(PyStr(<<"F","i","x","e","d","-","T","a","r","g","e","t">>), position,
                      Arg(kw, "source_subnet", PyStr(<<"a","l","l","-","I","P","v","4">>)),
                      Arg(kw, "source_port", PyStr(<<"*">>)),
                      Arg(kw, "destination_subnet", PyStr(<<"a","l","l","-","I","P","v","4">>)),
                      Arg(kw, "destination_port", PyStr(<<"*">>)))
        given_policy == Arg(kw, "optimization_policy", PyStr(<<"N","o","r","m","a","l">>))
        optimization_policy ==
            IF given_policy = PyStr(<<"C","o","m","p","r","e","s","s","i","o","n","-","O","n","l","y">>)
            THEN PyStr(<<"C","o","m","p","r","-","O","n","l","y">>) ELSE given_policy
        auto_kickoff == Arg(kw, "auto_kickoff", None)
        kickoff == IF auto_kickoff # None /\ truthy(auto_kickoff)
                   THEN PyStr(<<"Y","e","s">>) ELSE PyStr(<<"N","o">>)
        cloud_acceleration == Arg(kw, "cloud_acceleration", None)
    IN IF prefix.exc # "" THEN prefix
       ELSE Returned(prefix.row \o
              << <<translate_VLAN(Arg(kw, "vlan_id", None))>>,
                 <<Arg(kw, "protocol", PyStr(<<"-","-">>))>>,
                 <<Arg(kw, "preoptimization_policy", PyStr(<<"N","o","n","e">>))>>,
                 <<Arg(kw, "latency_optimization_policy", PyStr(<<"N","o","r","m","a","l">>))>>,
                 <<optimization_policy>>,
                 <<cloud_acceleration>>,
                 <<kickoff>>,
                 <<Arg(kw, "status", PyStr(<<"E","n","a","b","l","e","d">>))>> >>)

\* expected_fixed_target_rule without the "Compr-Only" abbreviation
expected_fixed_target_rule_unabbreviated(n_rules, kw) ==
    LET position == IF Arg(kw, "position", None) = None
                    THEN n_rules ELSE kw["position"]
        prefix == expected_rule_prefix(PyStr(<<"F","i","x","e","d","-","T","a","r","g","e","t">>), position,
                      Arg(kw, "source_subnet", PyStr(<<"a","l","l","-","I","P","v","4">>)),
                      Arg(kw, "source_port", PyStr(<<"*">>)),
                      Arg(kw, "destination_subnet", PyStr(<<"a","l","l","-","I","P","v","4">>)),
                      Arg(kw, "destination_port", PyStr(<<"*">>)))
        given_policy == Arg(kw, "optimization_policy", PyStr(<<"N","o","r","m","a","l">>))
        optimization_policy ==
            given_policy
        auto_kickoff == Arg(kw, "auto_kickoff", None)
        kickoff == IF auto_kickoff # None /\ truthy(auto_kickoff)
                   THEN PyStr(<<"Y","e","s">>) ELSE PyStr(<<"N","o">>)
        cloud_acceleration == PyStr(<<"-","-">>)
    IN IF prefix.exc # "" THEN prefix
       ELSE Returned(prefix.row \o
              << <<translate_VLAN(Arg(kw, "vlan_id", None))>>,
                 <<Arg(kw, "protocol", PyStr(<<"-","-">>))>>,
                 <<Arg(kw, "preoptimization_policy", PyStr(<<"N","o","n","e">>))>>,
                 <<Arg(kw, "latency_optimization_policy", PyStr(<<"N","o","r","m","a","l">>))>>,
                 <<optimization_policy>>,
                 <<cloud_acceleration>>,
                 <<kickoff>>,
                 <<Arg(kw, "status", PyStr(<<"E","n","a","b","l","e","d">>))>> >>)

expected_fixed_target_rule(n_rules, kw) ==
    LET position == IF Arg(kw, "position", None) = None
                    THEN n_rules ELSE kw["position"]
        prefix == expected_rule_prefix(PyStr(<<"F","i","x","e","d","-","T","a","r","g","e","t">>), position,
                      Arg(kw, "source_subnet", PyStr(<<"a","l","l","-","I","P","v","4">>)),
                      Arg(kw, "source_port", PyStr(<<"*">>)),
                      Arg(kw, "destination_subnet", PyStr(<<"a","l","l","-","I","P","v","4">>)),
                      Arg(kw, "destination_port", PyStr(<<"*">>)))
        given_policy == Arg(kw, "optimization_policy", PyStr(<<"N","o","r","m","a","l">>))
        optimization_policy ==
            IF given_policy = PyStr(<<"C","o","m","p","r","e","s","s","i","o","n","-","O","n","l","y">>)
            THEN PyStr(<<"C","o","m","p","r","-","O","n","l","y">>) ELSE given_policy
        auto_kickoff == Arg(kw, "auto_kickoff", None)
        kickoff == IF auto_kickoff # None /\ truthy(auto_kickoff)
                   THEN PyStr(<<"Y","e","s">>) ELSE PyStr(<<"N","o">>)
        cloud_acceleration == PyStr(<<"-","-">>)
    IN IF prefix.exc # "" THEN prefix
       ELSE Returned(prefix.row \o
              << <<translate_VLAN(Arg(kw, "vlan_id", None))>>,
                 <<Arg(kw, "protocol", PyStr(<<"-","-">>))>>,
                 <<Arg(kw, "preoptimization_policy", PyStr(<<"N","o","n","e">>))>>,
                 <<Arg(kw, "latency_optimization_policy", PyStr(<<"N","o","r","m","a","l">>))>>,
                 <<optimization_policy>>,
                 <<cloud_acceleration>>,
                 <<kickoff>>,
                 <<Arg(kw, "status", PyStr(<<"E","n","a","b","l","e","d">>))>> >>)

\* expected_pass_through_rule that renders the optimization_policy it is given
expected_pass_through_rule_policy(n_rules, kw) ==
    LET position == IF Arg(kw, "position", None) = None
                    THEN n_rules ELSE kw["position"]
        prefix == expected_rule_prefix(PyStr(<<"P","a","s","s"," ","T","h","r","o","u","g","h">>), position,
                      Arg(kw, "source_subnet", PyStr(<<"a","l","l","-","I","P","v","4">>)),
                      Arg(kw, "source_port", PyStr(<<"*">>)),
                      Arg(kw, "destination_subnet", PyStr(<<"a","l","l","-","I","P","v","4">>)),
                      Arg(kw, "destination_port", PyStr(<<"*">>)))
        preoptimization_policy ==
            Arg(kw, "optimization_policy", PyStr(<<"-","-">>))
        optimization_policy == PyStr(<<"-","-">>)
        latency_optimization_policy == PyStr(<<"-","-">>)
        kickoff == PyStr(<<"-","-">>)
    IN IF prefix.exc # "" THEN prefix
       ELSE Returned(prefix.row \o
              << <<translate_VLAN(Arg(kw, "vlan_id", None))>>,
                 <<Arg(kw, "protocol", PyStr(<<"T","C","P">>))>>,
                 <<preoptimization_policy>>,
                 <<latency_optimization_policy>>,
                 <<optimization_policy>>,
                 <<Arg(kw, "cloud_acceleration", PyStr(<<"A","u","t","o">>))>>,
                 <<kickoff>>,
                 <<Arg(kw, "status", PyStr(<<"E","n","a","b","l","e","d">>))>> >>)

expected_pass_through_rule(n_rules, kw) ==
    LET position == IF Arg(kw, "position", None) = None
                    THEN n_rules ELSE kw["position"]
        prefix == expected_rule_prefix(PyStr(<<"P","a","s","s"," ","T","h","r","o","u","g","h">>), position,
                      Arg(kw, "source_subnet", PyStr(<<"a","l","l","-","I","P","v","4">>)),
                      Arg(kw, "source_port", PyStr(<<"*">>)),
                      Arg(kw, "destination_subnet", PyStr(<<"a","l","l","-","I","P","v","4">>)),
                      Arg(kw, "destination_port", PyStr(<<"*">>)))
        preoptimization_policy == PyStr(<<"-","-">>)
        optimization_policy == PyStr(<<"-","-">>)
        latency_optimization_policy == PyStr(<<"-","-">>)
        kickoff == PyStr(<<"-","-">>)
    IN IF prefix.exc # "" THEN prefix
       ELSE Returned(prefix.row \o
              << <<translate_VLAN(Arg(kw, "vlan_id", None))>>,
                 <<Arg(kw, "protocol", PyStr(<<"T","C","P">>))>>,
                 <<preoptimization_policy>>,
                 <<latency_optimization_policy>>,
                 <<optimization_policy>>,
                 <<Arg(kw, "cloud_acceleration", PyStr(<<"A","u","t","o">>))>>,
                 <<kickoff>>,
                 <<Arg(kw, "status", PyStr(<<"E","n","a","b","l","e","d">>))>> >>)

\* expected_discard_rule with kickoff and status in one cell-group
expected_discard_rule_merged(n_rules, kw) ==
    LET position == IF Arg(kw, "position", None) = None
                    THEN n_rules ELSE kw["position"]
        prefix == expected_rule_prefix(PyStr(<<"D","i","s","c","a","r","d">>), position,
                      Arg(kw, "source_subnet", PyStr(<<"a","l","l","-","I","P","v","4">>)),
                      Arg(kw, "source_port", PyStr(<<"*">>)),
                      Arg(kw, "destination_subnet", PyStr(<<"a","l","l","-","I","P","v","4">>)),
                      Arg(kw, "destination_port", PyStr(<<"*">>)))
        preoptimization_policy == PyStr(<<"-","-">>)
        optimization_policy == PyStr(<<"-","-">>)
        latency_optimization_policy == PyStr(<<"-","-">>)
        kickoff == PyStr(<<"-","-">>)
        cloud_acceleration == PyStr(<<"-","-">>)
    IN IF prefix.exc # "" THEN prefix
       ELSE Returned(prefix.row \o
              << <<translate_VLAN(Arg(kw, "vlan_id", None))>>,
                 <<Arg(kw, "protocol", PyStr(<<"-","-">>))>>,
                 <<preoptimization_policy>>,
                 <<latency_optimization_policy>>,
                 <<optimization_policy>>,
                 <<cloud_acceleration>>,
                 <<kickoff, Arg(kw, "status", PyStr(<<"E","n","a","b","l","e","d">>))>> >>)

expected_discard_rule(n_rules, kw) ==
    LET position == IF Arg(kw, "position", None) = None
                    THEN n_rules ELSE kw["position"]
        prefix == expected_rule_prefix(PyStr(<<"D","i","s","c","a","r","d">>), position,
                      Arg(kw, "source_subnet", PyStr(<<"a","l","l","-","I","P","v","4">>)),
                      Arg(kw, "source_port", PyStr(<<"*">>)),
                      Arg(kw, "destination_subnet", PyStr(<<"a","l","l","-","I","P","v","4">>)),
                      Arg(kw, "destination_port", PyStr(<<"*">>)))
        preoptimization_policy == PyStr(<<"-","-">>)
        optimization_policy == PyStr(<<"-","-">>)
        latency_optimization_policy == PyStr(<<"-","-">>)
        kickoff == PyStr(<<"-","-">>)
        cloud_acceleration == PyStr(<<"-","-">>)
    IN IF prefix.exc # "" THEN prefix
       ELSE Returned(prefix.row \o
              << <<translate_VLAN(Arg(kw, "vlan_id", None))>>,
                 <<Arg(kw, "protocol", PyStr(<<"-","-">>))>>,
                 <<preoptimization_policy>>,
                 <<latency_optimization_policy>>,
                 <<optimization_policy>>,
                 <<cloud_acceleration>>,
                 <<kickoff>>,
                 <<Arg(kw, "status", PyStr(<<"E","n","a","b","l","e","d">>))>> >>)

\* expected_deny_rule with the protocol default of expected_pass_through_rule
expected_deny_rule_tcp(n_rules, kw) ==
    LET position == IF Arg(kw, "position", None) = None
                    THEN n_rules ELSE kw["position"]
        prefix == expected_rule_prefix(PyStr(<<"D","e","n","y">>), position,
                      Arg(kw, "source_subnet", PyStr(<<"a","l","l","-","I","P","v","4">>)),
                      Arg(kw, "source_port", PyStr(<<"*">>)),
                      Arg(kw, "destination_subnet", PyStr(<<"a","l","l","-","I","P","v","4">>)),
                      Arg(kw, "destination_port", PyStr(<<"*">>)))
        preoptimization_policy == PyStr(<<"-","-">>)
        optimization_policy == PyStr(<<"-","-">>)
        latency_optimization_policy == PyStr(<<"-","-">>)
        kickoff == PyStr(<<"-","-">>)
        cloud_acceleration == PyStr(<<"-","-">>)
    IN IF prefix.exc # "" THEN prefix
       ELSE Returned(prefix.row \o
              << <<translate_VLAN(Arg(kw, "vlan_id", None))>>,
                 <<Arg(kw, "protocol", PyStr(<<"T","C","P">>))>>,
                 <<preoptimization_policy>>,
                 <<latency_optimization_policy>>,
                 <<optimization_policy>>,
                 <<cloud_acceleration>>,
                 <<kickoff>>,
                 <<Arg(kw, "status", PyStr(<<"E","n","a","b","l","e","d">>))>> >>)

expected_deny_rule(n_rules, kw) ==
    LET position == IF Arg(kw, "position", None) = None
                    THEN n_rules ELSE kw["position"]
        prefix == expected_rule_prefix(PyStr(<<"D","e","n","y">>), position,
                      Arg(kw, "source_subnet", PyStr(<<"a","l","l","-","I","P","v","4">>)),
                      Arg(kw, "source_port", PyStr(<<"*">>)),
                      Arg(kw, "destination_subnet", PyStr(<<"a","l","l","-","I","P","v","4">>)),
                      Arg(kw, "destination_port", PyStr(<<"*">>)))
        preoptimization_policy == PyStr(<<"-","-">>)
        optimization_policy == PyStr(<<"-","-">>)
        latency_optimization_policy == PyStr(<<"-","-">>)
        kickoff == PyStr(<<"-","-">>)
        cloud_acceleration == PyStr(<<"-","-">>)
    IN IF prefix.exc # "" THEN prefix
       ELSE Returned(prefix.row \o
              << <<translate_VLAN(Arg(kw, "vlan_id", None))>>,
                 <<Arg(kw, "protocol", PyStr(<<"-","-">>))>>,
                 <<preoptimization_policy>>,
                 <<latency_optimization_policy>>,
                 <<optimization_policy>>,
                 <<cloud_acceleration>>,
                 <<kickoff>>,
                 <<Arg(kw, "status", PyStr(<<"E","n","a","b","l","e","d">>))>> >>)

RuleTypes ==
    { PyStr(<<"A","u","t","o"," ","D","i","s","c","o","v","e","r">>), PyStr(<<"F","i","x","e","d","-","T","a","r","g","e","t">>),
      PyStr(<<"P","a","s","s"," ","T","h","r","o","u","g","h">>), PyStr(<<"D","i","s","c","a","r","d">>), PyStr(<<"D","e","n","y">>) }

\* append_description that tests kwords.get('description') and not the key
append_description_truthy(expected_data, kw) ==
    IF kw["description"] = Absent \/ ~truthy(kw["description"])
    THEN [exc |-> "", data |-> expected_data]
    ELSE IF kw["description"].t # "str"
    THEN [exc |-> "TypeError", data |-> <<>>]
    ELSE LET description_row ==
                 << PyStr(<<"D","e","s","c","r","i","p","t","i","o","n",":"," ">> \o kw["description"].s) >>
         IN [exc |-> "", data |-> Append(expected_data, <<description_row>>)]

\* expected_data after the description, when there is one, is appended
append_description(expected_data, kw) ==
    IF kw["description"] = Absent
    THEN [exc |-> "", data |-> expected_data]
    ELSE IF kw["description"].t # "str"
    THEN [exc |-> "TypeError", data |-> <<>>]
    ELSE LET description_row ==
                 << PyStr(<<"D","e","s","c","r","i","p","t","i","o","n",":"," ">> \o kw["description"].s) >>
         IN [exc |-> "", data |-> Append(expected_data, <<description_row>>)]

expected_rule(n_rules, kw) ==
    IF kw["type_of_rule"] = Absent
    THEN [exc |-> "KeyError", data |-> <<>>, log |-> <<>>]
    ELSE LET type_of_rule == kw["type_of_rule"]
             built ==
                 CASE type_of_rule = PyStr(<<"A","u","t","o"," ","D","i","s","c","o","v","e","r">>) ->
                          expected_auto_discover_rule(n_rules, kw)
                   [] type_of_rule = PyStr(<<"F","i","x","e","d","-","T","a","r","g","e","t">>) ->
                          expected_fixed_target_rule(n_rules, kw)
                   [] type_of_rule = PyStr(<<"P","a","s","s"," ","T","h","r","o","u","g","h">>) ->
                          expected_pass_through_rule(n_rules, kw)
                   [] type_of_rule = PyStr(<<"D","i","s","c","a","r","d">>) ->
                          expected_discard_rule(n_rules, kw)
                   [] type_of_rule = PyStr(<<"D","e","n","y">>) ->
                          expected_deny_rule(n_rules, kw)
                   [] OTHER -> Raised("UnboundLocalError")
             logged == IF type_of_rule \in RuleTypes
                       THEN <<>> ELSE <<"Not a valid type">>
         IN IF built.exc # ""
            THEN [exc |-> built.exc, data |-> <<>>, log |-> logged]
            ELSE LET described == append_description(<<built.row>>, kw)
                 IN [exc |-> described.exc, data |-> described.data,
                     log |-> logged]

-----------------------------------------------------------------------------
(* The calls explored *)

MaxSupplied == 3

MaxPortLen == 3

MaxVlanLen == 3

Keys ==
    { "type_of_rule", "position", "source_subnet", "source_port",
      "destination_subnet", "destination_port", "vlan_id",
      "preoptimization_policy", "optimization_policy",
      "latency_optimization_policy", "protocol", "auto_kickoff", "status",
      "cloud_acceleration", "description" }

OptionalKeys == Keys \ {"type_of_rule"}

RECURSIVE StringsUpTo(_, _)
StringsUpTo(alphabet, len) ==
    IF len = 0 THEN {<<>>}
    ELSE LET shorter == StringsUpTo(alphabet, len - 1)
         IN shorter \cup {Append(s, c) : s \in shorter, c \in alphabet}

PortStrings ==
    {PyStr(s) : s \in StringsUpTo({"a", "A", "l", "L", "x"}, MaxPortLen)}

VlanStrings == {PyStr(s) : s \in StringsUpTo({"c", "O", "7"}, MaxVlanLen)}

SomePorts ==
    { PyStr(<<"A","l","l">>), PyStr(<<"8","0">>), PyStr(<<"a","l","l","x">>), PyStr(<<"x","a","l","l">>),
      PyInt(80) }

TypeValues == RuleTypes \cup {PyStr(<<"B","o","g","u","s">>), PyStr(<<"d","e","n","y">>), Absent}

\* the values a call passes for a key when it passes several keys
Values(key) ==
    CASE key = "position" -> {PyInt(3)}
      [] key = "source_subnet" -> {PyStr(<<"1","0",".","0",".","0",".","0","/","8">>)}
      [] key = "source_port" -> {PyStr(<<"A","l","l">>), PyStr(<<"8","0">>), PyInt(80)}
      [] key = "destination_subnet" -> {PyStr(<<"1","9","2",".","1","6","8",".","1",".","0","/","2","4">>)}
      [] key = "destination_port" -> {PyStr(<<"A","l","l">>), PyStr(<<"4","4","3">>)}
      [] key = "vlan_id" -> {None, PyStr(<<"c","o","r","p">>), PyInt(7)}
      [] key = "preoptimization_policy" -> {PyStr(<<"S","S","L">>)}
      [] key = "optimization_policy" ->
             {PyStr(<<"C","o","m","p","r","e","s","s","i","o","n","-","O","n","l","y">>), PyStr(<<"S","D","R","-","O","n","l","y">>)}
      [] key = "latency_optimization_policy" -> {PyStr(<<"H","T","T","P">>)}
      [] key = "protocol" -> {PyStr(<<"U","D","P">>)}
      [] key = "auto_kickoff" -> {PyBool(TRUE), PyInt(0), None}
      [] key = "status" -> {PyStr(<<"D","i","s","a","b","l","e","d">>)}
      [] key = "cloud_acceleration" -> {PyStr(<<"A","l","w","a","y","s">>), None}
      [] key = "description" -> {PyStr(<<"n","e","e","d","s"," ","r","e","v","i","e","w">>), None}

\* the further values a call passes for a key when it passes that key alone
MoreValues(key) ==
    CASE key = "position" -> {None, PyInt(12), PyStr(<<"3">>)}
      [] key = "source_port" -> PortStrings \cup SomePorts \cup {None}
      [] key = "destination_port" -> PortStrings \cup SomePorts \cup {None}
      [] key = "vlan_id" -> VlanStrings \cup {PyInt(120), PyStr(<<"v","L","A","N"," ","a">>)}
      [] key = "optimization_policy" ->
             {PyStr(<<"c","o","m","p","r","e","s","s","i","o","n","-","o","n","l","y">>), PyStr(<<"N","o","r","m","a","l">>), None}
      [] key = "auto_kickoff" ->
             {PyBool(FALSE), PyInt(1), PyStr(<<>>), PyStr(<<"n","o">>)}
      [] key = "description" -> {PyStr(<<>>)}
      [] OTHER -> {}

NoKwords == [key \in Keys |-> Absent]

RECURSIVE Supplied(_)
Supplied(count) ==
    IF count = 0 THEN {NoKwords}
    ELSE LET fewer == Supplied(count - 1)
         IN fewer \cup
            UNION { UNION { {[kw EXCEPT ![key] = v] : v \in Values(key)}
                            : key \in OptionalKeys }
                    : kw \in fewer }

\* one key from its larger set of values, both ports when the key is a port
Single ==
    UNION { {[NoKwords EXCEPT ![key] = v] : v \in MoreValues(key)}
            : key \in OptionalKeys }
    \cup {[NoKwords EXCEPT !["source_port"] = p, !["destination_port"] = q]
            : p \in PortStrings, q \in SomePorts}
    \cup {[NoKwords EXCEPT !["source_port"] = q, !["destination_port"] = p]
            : p \in PortStrings, q \in SomePorts}

Calls ==
    {[kw EXCEPT !["type_of_rule"] = type]
        : kw \in Supplied(MaxSupplied) \cup Single, type \in TypeValues}

Init ==
    /\ pc = "ready"
    /\ kwords \in Calls
    /\ number_of_rules \in {None, PyInt(5)}
    /\ result = [exc |-> "", data |-> <<>>]
    /\ log = <<>>
    /\ vlan = Absent

\* result = expected_rule(number_of_rules, **kwords)
ExpectedRule ==
    /\ pc = "ready"
    /\ LET r == expected_rule(number_of_rules, kwords)
       IN /\ result' = [exc |-> r.exc, data |-> r.data]
          /\ log' = r.log
    /\ pc' = "expected_rule"
    /\ UNCHANGED <<number_of_rules, kwords, vlan>>

\* vlan = translate_VLAN(kwords['vlan_id']), translate_VLAN() without one
TranslateVLAN ==
    /\ pc = "ready"
    /\ vlan' = translate_VLAN(Arg(kwords, "vlan_id", None))
    /\ pc' = "translate_VLAN"
    /\ UNCHANGED <<number_of_rules, kwords, result, log>>

Next == ExpectedRule \/ TranslateVLAN

Spec == Init /\ [][Next]_vars

-----------------------------------------------------------------------------
(* Properties *)

Done == pc = "expected_rule"

Built == Done /\ result.exc = ""

Row == result.data[1]

Cell(i) == Row[i][1]

Type == kwords["type_of_rule"]

AutoDiscover == PyStr(<<"A","u","t","o"," ","D","i","s","c","o","v","e","r">>)

FixedTarget == PyStr(<<"F","i","x","e","d","-","T","a","r","g","e","t">>)

PassThrough == PyStr(<<"P","a","s","s"," ","T","h","r","o","u","g","h">>)

Discard == PyStr(<<"D","i","s","c","a","r","d">>)

Deny == PyStr(<<"D","e","n","y">>)

Placeholder == PyStr(<<"-","-">>)

\* C1: the row expected_rule builds, for each of the five rule types and
\* whatever parameters are passed, has exactly 12 cell-groups of one cell
\* each, in the column order position, type, source, destination, VLAN,
\* protocol, pre-optimization policy, latency-optimization policy,
\* optimization policy, cloud-acceleration, kickoff, status.
C1_RowShape ==
    Built =>
        /\ Type \in {AutoDiscover, FixedTarget, PassThrough, Discard, Deny}
        /\ Len(Row) = 12
        /\ \A i \in 1..12 : Len(Row[i]) = 1
        /\ kwords["position"] = PyInt(3) => Cell(1) = PyStr(<<"3">>)
        /\ Cell(2) = Type
        /\ kwords["source_subnet"] = PyStr(<<"1","0",".","0",".","0",".","0","/","8">>)
               => SubSeq(Cell(3).s, 1, 10) = <<"1","0",".","0",".","0",".","0","/","8">>
        /\ kwords["destination_subnet"] = PyStr(<<"1","9","2",".","1","6","8",".","1",".","0","/","2","4">>)
               => SubSeq(Cell(4).s, 1, 14) = <<"1","9","2",".","1","6","8",".","1",".","0","/","2","4">>
        /\ kwords["vlan_id"] = PyInt(7) => Cell(5) = PyStr(<<"7">>)
        /\ kwords["protocol"] = PyStr(<<"U","D","P">>) => Cell(6) = PyStr(<<"U","D","P">>)
        /\ kwords["preoptimization_policy"] = PyStr(<<"S","S","L">>)
             /\ Type \in {AutoDiscover, FixedTarget}
               => Cell(7) = PyStr(<<"S","S","L">>)
        /\ kwords["latency_optimization_policy"] = PyStr(<<"H","T","T","P">>)
             /\ Type \in {AutoDiscover, FixedTarget}
               => Cell(8) = PyStr(<<"H","T","T","P">>)
        /\ kwords["optimization_policy"] = PyStr(<<"S","D","R","-","O","n","l","y">>)
             /\ Type \in {AutoDiscover, FixedTarget}
               => Cell(9) = PyStr(<<"S","D","R","-","O","n","l","y">>)
        /\ kwords["cloud_acceleration"] = PyStr(<<"A","l","w","a","y","s">>)
             /\ Type \in {AutoDiscover, PassThrough}
               => Cell(10) = PyStr(<<"A","l","w","a","y","s">>)
        /\ kwords["auto_kickoff"] = PyBool(TRUE)
             /\ Type \in {AutoDiscover, FixedTarget}
               => Cell(11) = PyStr(<<"Y","e","s">>)
        /\ kwords["status"] = PyStr(<<"D","i","s","a","b","l","e","d">>)
               => Cell(12) = PyStr(<<"D","i","s","a","b","l","e","d">>)

C1_Witness ==
    /\ Built
    /\ Type = Discard
    /\ kwords["position"] = PyInt(3)
    /\ kwords["protocol"] = PyStr(<<"U","D","P">>)
    /\ kwords["status"] = PyStr(<<"D","i","s","a","b","l","e","d">>)
    /\ Len(Row) = 12

\* C2: called with a type_of_rule that is none of the five type names,
\* expected_rule logs an informational message and returns without raising
\* an error, and what it returns holds no rule row.
C2_UnknownTypeReturns ==
    Done /\ Type # Absent
         /\ Type \notin {AutoDiscover, FixedTarget, PassThrough, Discard, Deny}
      => /\ log = <<"Not a valid type">>
         /\ result.exc = ""
         /\ \A i \in 1..Len(result.data) : Len(result.data[i]) # 12

\* C3: in a Pass Through, Discard or Deny row the pre-optimization policy,
\* latency-optimization policy, optimization policy and kickoff cells are
\* "--" whatever is passed for preoptimization_policy, optimization_policy,
\* latency_optimization_policy and auto_kickoff, nothing included.
C3_ForcedPlaceholders ==
    Built /\ Type \in {PassThrough, Discard, Deny}
      => /\ Cell(7) = Placeholder
         /\ Cell(8) = Placeholder
         /\ Cell(9) = Placeholder
         /\ Cell(KICKOFF_INDEX + 1) = Placeholder

C3_Witness ==
    /\ Built
    /\ Type = PassThrough
    /\ kwords["preoptimization_policy"] = PyStr(<<"S","S","L">>)
    /\ kwords["optimization_policy"] = PyStr(<<"S","D","R","-","O","n","l","y">>)
    /\ kwords["auto_kickoff"] = PyBool(TRUE)
    /\ Cell(9) = Placeholder

\* C4: the cloud-acceleration cell is "--" in a Fixed-Target, Discard or Deny
\* row whatever cloud_acceleration is passed; in an Auto Discover or Pass
\* Through row it is the cloud_acceleration passed, "Auto" when none is.
C4_CloudAcceleration ==
    Built =>
        /\ Type \in {FixedTarget, Discard, Deny} => Cell(10) = Placeholder
        /\ Type \in {AutoDiscover, PassThrough} =>
              Cell(10) = IF kwords["cloud_acceleration"] = Absent
                         THEN PyStr(<<"A","u","t","o">>)
                         ELSE kwords["cloud_acceleration"]

C4_Witness ==
    /\ Built
    /\ Type = FixedTarget
    /\ kwords["cloud_acceleration"] = PyStr(<<"A","l","w","a","y","s">>)
    /\ Cell(10) = Placeholder

AllSpellings ==
    { <<"a","l","l">>, <<"a","l","L">>, <<"a","L","l">>, <<"a","L","L">>, <<"A","l","l">>, <<"A","l","L">>, <<"A","L","l">>, <<"A","L","L">> }

NormalizedPort(port) == IF port \in AllSpellings THEN <<"*">> ELSE port

\* C5: for every rule type the source cell is source_subnet + ":" +
\* P(source_port) and the destination cell destination_subnet + ":" +
\* P(destination_port), where P(p) is "*" exactly when p is "all" in some
\* letter case and p itself otherwise; each side is normalized on its own.
C5_Endpoints ==
    Built =>
        LET source_subnet ==
                Arg(kwords, "source_subnet", PyStr(<<"a","l","l","-","I","P","v","4">>)).s
            source_port == Arg(kwords, "source_port", PyStr(<<"*">>)).s
            destination_subnet ==
                Arg(kwords, "destination_subnet", PyStr(<<"a","l","l","-","I","P","v","4">>)).s
            destination_port ==
                Arg(kwords, "destination_port", PyStr(<<"*">>)).s
        IN /\ Cell(3) = PyStr(source_subnet \o <<":">>
                                \o NormalizedPort(source_port))
           /\ Cell(4) = PyStr(destination_subnet \o <<":">>
                                \o NormalizedPort(destination_port))

C5_Witness ==
    /\ Built
    /\ kwords["source_port"] = PyStr(<<"a","L","L">>)
    /\ kwords["destination_port"] = PyStr(<<"a","l","l","x">>)
    /\ Cell(3) = PyStr(<<"a","l","l","-","I","P","v","4",":","*">>)
    /\ Cell(4) = PyStr(<<"a","l","l","-","I","P","v","4",":","a","l","l","x">>)

\* C6: in an Auto Discover or Fixed-Target row the kickoff cell is "Yes" when
\* auto_kickoff is truthy (True, 1, a non-empty string) and "No" when it is
\* falsy (False, 0, None, an empty string) or not passed; it is never "--".
C6_Kickoff ==
    Built /\ Type \in {AutoDiscover, FixedTarget}
      => /\ Cell(KICKOFF_INDEX + 1) # Placeholder
         /\ kwords["auto_kickoff"] \in {PyBool(TRUE), PyInt(1), PyStr(<<"n","o">>)}
               => Cell(KICKOFF_INDEX + 1) = PyStr(<<"Y","e","s">>)
         /\ kwords["auto_kickoff"] \in
                   {Absent, None, PyBool(FALSE), PyInt(0), PyStr(<<>>)}
               => Cell(KICKOFF_INDEX + 1) = PyStr(<<"N","o">>)

C6_Witness ==
    /\ Built
    /\ Type = AutoDiscover
    /\ kwords["auto_kickoff"] = PyInt(1)
    /\ Cell(KICKOFF_INDEX + 1) = PyStr(<<"Y","e","s">>)

\* C7: in an Auto Discover or Fixed-Target row the optimization-policy cell
\* is "Compr-Only" when optimization_policy is "Compression-Only" and the
\* optimization_policy passed otherwise, "Normal" when none is; the two
\* builders render the same optimization-policy cell for the same call.
C7_OptimizationPolicy ==
    Built /\ Type \in {AutoDiscover, FixedTarget}
      => /\ Cell(9) =
                IF kwords["optimization_policy"] = PyStr(<<"C","o","m","p","r","e","s","s","i","o","n","-","O","n","l","y">>)
                THEN PyStr(<<"C","o","m","p","r","-","O","n","l","y">>)
                ELSE IF kwords["optimization_policy"] = Absent
                THEN PyStr(<<"N","o","r","m","a","l">>)
                ELSE kwords["optimization_policy"]
         /\ LET auto == expected_auto_discover_rule(number_of_rules, kwords)
                fixed == expected_fixed_target_rule(number_of_rules, kwords)
            IN /\ auto.exc = ""
               /\ fixed.exc = ""
               /\ auto.row[9] = fixed.row[9]

C7_Witness ==
    /\ Built
    /\ Type = FixedTarget
    /\ kwords["optimization_policy"] = PyStr(<<"C","o","m","p","r","e","s","s","i","o","n","-","O","n","l","y">>)
    /\ Cell(9) = PyStr(<<"C","o","m","p","r","-","O","n","l","y">>)

IsStrOrAbsent(v) == v.t \in {"str", "absent"}

\* C8: for every valid rule type expected_rule returns a sequence whose first
\* element is the 12-cell row built; with a description d among the
\* parameters it has exactly two elements, the second a nested row of the one
\* cell "Description: " + d, and without a description exactly one element.
C8_Description ==
    /\ Done /\ Type \in {AutoDiscover, FixedTarget, PassThrough, Discard, Deny}
            /\ IsStrOrAbsent(kwords["source_port"])
            /\ IsStrOrAbsent(kwords["destination_port"])
            /\ IsStrOrAbsent(kwords["description"])
         => result.exc = ""
    /\ Built =>
         /\ Len(result.data) >= 1
         /\ Len(result.data[1]) = 12
         /\ result.data[1][2] = <<Type>>
         /\ IF kwords["description"] = Absent
            THEN Len(result.data) = 1
            ELSE /\ Len(result.data) = 2
                 /\ result.data[2] =
                      << <<PyStr(<<"D","e","s","c","r","i","p","t","i","o","n",":"," ">>
                                   \o kwords["description"].s)>> >>

C8_Witness ==
    /\ Built
    /\ kwords["description"] = PyStr(<<"n","e","e","d","s"," ","r","e","v","i","e","w">>)
    /\ result.data[2] = << <<PyStr(<<"D","e","s","c","r","i","p","t","i","o","n",":"," ","n","e","e","d","s"," ","r","e","v","i","e","w">>)>> >>

CapitalizedVLAN(v) ==
    CASE v \in {Absent, None} -> PyStr(<<"A","l","l">>)
      [] v = PyInt(7) -> PyStr(<<"7">>)
      [] v = PyInt(120) -> PyStr(<<"1","2","0">>)
      [] v = PyStr(<<"c","o","r","p">>) -> PyStr(<<"C","o","r","p">>)
      [] v = PyStr(<<"v","L","A","N"," ","a">>) -> PyStr(<<"V","l","a","n"," ","a">>)
      [] OTHER ->
           PyStr([i \in 1..Len(v.s) |->
                    IF i = 1
                    THEN (IF v.s[i] = "c" THEN "C" ELSE v.s[i])
                    ELSE (IF v.s[i] = "O" THEN "o" ELSE v.s[i])])

\* C9: translate_VLAN returns "All" for None and otherwise the identifier as
\* a string with its first character in upper case and the others in lower
\* case ("corp" gives "Corp", 7 gives "7"); the VLAN cell of a row of any
\* rule type is translate_VLAN(vlan_id).
C9_TranslateVLAN ==
    /\ pc = "translate_VLAN" => vlan = CapitalizedVLAN(kwords["vlan_id"])
    /\ Built => Cell(5) = CapitalizedVLAN(kwords["vlan_id"])

C9_Witness ==
    /\ Built
    /\ kwords["vlan_id"] = PyStr(<<"c","O","O">>)
    /\ Cell(5) = PyStr(<<"C","o","o">>)

DenyExample ==
    [NoKwords EXCEPT !["type_of_rule"] = Deny,
                     !["position"] = PyInt(3),
                     !["source_subnet"] = PyStr(<<"1","0",".","0",".","0",".","0","/","8">>),
                     !["destination_port"] = PyStr(<<"A","l","l">>)]

DenyExampleRow ==
    << <<PyStr(<<"3">>)>>, <<PyStr(<<"D","e","n","y">>)>>, <<PyStr(<<"1","0",".","0",".","0",".","0","/","8",":","*">>)>>,
       <<PyStr(<<"a","l","l","-","I","P","v","4",":","*">>)>>, <<PyStr(<<"A","l","l">>)>>, <<PyStr(<<"-","-">>)>>,
       <<PyStr(<<"-","-">>)>>, <<PyStr(<<"-","-">>)>>, <<PyStr(<<"-","-">>)>>,
       <<PyStr(<<"-","-">>)>>, <<PyStr(<<"-","-">>)>>, <<PyStr(<<"E","n","a","b","l","e","d">>)>> >>

\* C10: a parameter that is not passed is rendered with the default of the
\* rule type and one that is passed as given: source and destination default
\* to "all-IPv4:*", VLAN to "All", status to "Enabled", protocol to "--"
\* ("TCP" for Pass Through), and for Auto Discover and Fixed-Target the
\* pre-optimization policy to "None" and the latency and optimization policy
\* to "Normal"; expected_rule(type_of_rule="Deny", position=3,
\* source_subnet="10.0.0.0/8", destination_port="All") yields the row
\* 3, Deny, 10.0.0.0/8:*, all-IPv4:*, All, --, --, --, --, --, --, Enabled.
C10_Defaults ==
    Built =>
        /\ kwords["source_subnet"] = Absent /\ kwords["source_port"] = Absent
              => Cell(3) = PyStr(<<"a","l","l","-","I","P","v","4",":","*">>)
        /\ kwords["destination_subnet"] = Absent
             /\ kwords["destination_port"] = Absent
              => Cell(4) = PyStr(<<"a","l","l","-","I","P","v","4",":","*">>)
        /\ kwords["vlan_id"] = Absent => Cell(5) = PyStr(<<"A","l","l">>)
        /\ Cell(6) = IF kwords["protocol"] # Absent THEN kwords["protocol"]
                     ELSE IF Type = PassThrough THEN PyStr(<<"T","C","P">>)
                     ELSE PyStr(<<"-","-">>)
        /\ Cell(12) = IF kwords["status"] # Absent THEN kwords["status"]
                      ELSE PyStr(<<"E","n","a","b","l","e","d">>)
        /\ Type \in {AutoDiscover, FixedTarget} =>
             /\ Cell(7) = IF kwords["preoptimization_policy"] # Absent
                          THEN kwords["preoptimization_policy"]
                          ELSE PyStr(<<"N","o","n","e">>)
             /\ Cell(8) = IF kwords["latency_optimization_policy"] # Absent
                          THEN kwords["latency_optimization_policy"]
                          ELSE PyStr(<<"N","o","r","m","a","l">>)
             /\ kwords["optimization_policy"] = Absent
                   => Cell(9) = PyStr(<<"N","o","r","m","a","l">>)
        /\ kwords = DenyExample => result.data = <<DenyExampleRow>>

C10_Witness ==
    /\ Built
    /\ kwords = DenyExample
    /\ Row = DenyExampleRow

====
